---------------------------- MODULE Spec2Model ----------------------------
(***************************************************************************)
(* HOCDB: a single-writer, append-only time-series store.                  *)
(*                                                                         *)
(* The Python binding (src/bindings/python/hocdb_python.py) is modelled    *)
(* from its code: argument normalisation, struct packing, the mapping of   *)
(* the engine's status to a return value or an exception, and the decoding *)
(* of the buffers the engine returns.  The storage engine behind the C API *)
(* (hocdb_init, hocdb_append, hocdb_flush, hocdb_load, hocdb_query,        *)
(* hocdb_get_stats, hocdb_get_latest, hocdb_close) is not part of the      *)
(* sources; it is modelled from sections 4, 5 and 6 of spec.md, and so are *)
(* the medium under it (what a crash keeps) and the lock of its append     *)
(* path.                                                                   *)
(*                                                                         *)
(* The segment is a sequence of bytes.  A record is record_width bytes: the *)
(* little-endian image struct.pack produces for the schema.                *)
(***************************************************************************)
EXTENDS Integers, Sequences, FiniteSets, TLC

(***************************************************************************)
(* Bounds of the model.                                                    *)
(***************************************************************************)
\* timestamps a caller supplies range over 1..MaxTs
MaxTs == 3
\* successful appends to one series over all its sessions
MaxAppends == 4
\* the ring holds CapRecords whole records in the model's capacity choices
CapRecords == 2
\* crashes one series goes through
MaxCrashes == 1

(***************************************************************************)
(* Schema and record codec (binding side).                                 *)
(***************************************************************************)
I64 == 1
BOOL == 6

\* The schema every session of the model passes to HOCDB(...).
Schema ==
    << [name |-> "timestamp", type |-> I64],
       [name |-> "event",     type |-> I64],
       [name |-> "flag",      type |-> BOOL] >>

FieldNames == { Schema[i].name : i \in 1..Len(Schema) }

\* _field_map: name -> index (1-based here, 0-based in Python)
FieldIndex(n) == CHOOSE i \in 1..Len(Schema) : Schema[i].name = n

\* struct format characters: 'q' takes 8 bytes, '?' takes 1 ('<': no padding)
FieldWidth(t) == IF t = BOOL THEN 1 ELSE 8

RECURSIVE SumWidths(_)
SumWidths(k) == IF k = 0 THEN 0 ELSE SumWidths(k - 1) + FieldWidth(Schema[k].type)

\* struct.calcsize(self._struct_fmt)
_record_size == SumWidths(Len(Schema))

\* byte offset of field i (0-based offset of a 1-based field index)
FieldOffset(i) == SumWidths(i - 1)

\* '>q' in place of '<q': most significant byte first
PackQ_BigEndian(v) ==
    LET mag == IF v >= 0 THEN v ELSE -v - 1
        low(i) == IF i <= 4 THEN (mag \div (256 ^ (i - 1))) % 256 ELSE 0
    IN  [i \in 1..8 |-> IF v >= 0 THEN low(9 - i) ELSE 255 - low(9 - i)]

\* struct.pack('<q', v): 8 bytes, two's complement, least significant first.
\* Values of the model are within 32 bits, so bytes 5..8 are the sign extension.
PackQ(v) ==
    LET mag == IF v >= 0 THEN v ELSE -v - 1
        low(i) == IF i <= 4 THEN (mag \div (256 ^ (i - 1))) % 256 ELSE 0
    IN  [i \in 1..8 |-> IF v >= 0 THEN low(i) ELSE 255 - low(i)]

\* '<Q' in place of '<q': the bytes read as an unsigned number
UnpackQ_Unsigned(b) ==
    IF b[4] >= 128 \/ \E i \in 5..8 : b[i] # 0 THEN 2147483647
    ELSE b[1] + 256 * b[2] + 65536 * b[3] + 16777216 * b[4]

\* struct.unpack('<q', b).  A value that does not fit 31 bits (bytes that no
\* PackQ of the model produced) saturates, which keeps its order against
\* every timestamp of the model.
UnpackQ(b) ==
    LET neg == b[8] >= 128
        byte(i) == IF neg THEN 255 - b[i] ELSE b[i]
        big == byte(4) >= 128 \/ \E i \in 5..8 : byte(i) # 0
        mag == IF big THEN 2147483646
               ELSE byte(1) + 256 * byte(2) + 65536 * byte(3) + 16777216 * byte(4)
    IN  IF neg THEN -mag - 1 ELSE mag

\* struct.pack('?', v)
PackBool(v) == << IF v THEN 1 ELSE 0 >>

\* struct.unpack('?', b): any non-zero byte is True
UnpackBool(b) == b[1] # 0

PackField(t, v) == IF t = BOOL THEN PackBool(v) ELSE PackQ(v)

UnpackField(t, b) == IF t = BOOL THEN UnpackBool(b) ELSE UnpackQ(b)

RECURSIVE PackUpTo(_, _)
PackUpTo(values, k) ==
    IF k = 0 THEN << >>
    ELSE PackUpTo(values, k - 1) \o PackField(Schema[k].type, values[k])

\* struct.pack(self._struct_fmt, *values), len(values) = len(schema)
struct_pack(values) == PackUpTo(values, Len(Schema))

\* struct.unpack(self._struct_fmt, chunk): the tuple of field values
struct_unpack(chunk) ==
    [i \in 1..Len(Schema) |->
        UnpackField(Schema[i].type,
                    SubSeq(chunk, FieldOffset(i) + 1,
                           FieldOffset(i) + FieldWidth(Schema[i].type)))]

\* record[field.name] = values[j]
RecordDict(values) == [n \in FieldNames |-> values[FieldIndex(n)]]

\* _unpack_records: whole chunks of _record_size bytes in order; a final chunk
\* shorter than _record_size ends the loop and is dropped.
RECURSIVE UnpackFrom(_, _)
UnpackFrom(data, i) ==
    IF i >= Len(data) THEN << >>
    ELSE LET chunk == SubSeq(data, i + 1,
                             IF i + _record_size <= Len(data) THEN i + _record_size
                             ELSE Len(data))
         IN  IF Len(chunk) < _record_size THEN << >>
             ELSE << RecordDict(struct_unpack(chunk)) >> \o UnpackFrom(data, i + _record_size)

\* lines 320-332
_unpack_records(data) == UnpackFrom(data, 0)


(***************************************************************************)
(* State.                                                                  *)
(***************************************************************************)
VARIABLES
    cfg,             \* arguments of hocdb_init: max_file_size, overwrite_on_full,
                     \* flush_on_write, auto_increment
    handle,          \* binding: self.handle is non-null
    file,            \* engine: the segment's bytes
    count,           \* engine: logical record count of the open handle
    last_timestamp,  \* engine: cached timestamp of the last commit
    head,            \* engine: byte offset of the oldest visible record
    latest,          \* engine: cached bytes of the latest committed record
    disk,            \* medium: the segment's bytes as of the last durable sync
    pending,         \* medium: the writes accepted since the last durable sync
    inflight,        \* engine: per thread, the append it is executing
    accepted,        \* history: the values of every record append returned True for
    crashes,         \* history: how many times the process died with the handle open
    sinceOpen,       \* history: successful appends on the current handle
    result           \* outcome of the last binding call

vars == << cfg, handle, file, count, last_timestamp, head, latest,
           disk, pending, inflight, accepted, crashes, sinceOpen, result >>

(***************************************************************************)
(* Storage engine behind the C API (modelled from spec.md).                *)
(***************************************************************************)
OK == 0
INVALID_RECORD_SIZE == -2
TIMESTAMP_NOT_MONOTONIC == -3
\* "other negative = other failure": the status of CapacityExceeded
CAPACITY_EXCEEDED == -1

\* fixed byte width per field type: 8 for Int64, Float64, UInt64; 1 for Bool
TypeWidth(t) == IF t = BOOL THEN 1 ELSE 8

RECURSIVE WidthUpTo(_)
WidthUpTo(k) == IF k = 0 THEN 0 ELSE WidthUpTo(k - 1) + TypeWidth(Schema[k].type)

\* total record width the codec derives from the schema
record_width == WidthUpTo(Len(Schema))

\* an Int64 field as the engine stores it: 8 bytes, two's complement, least
\* significant byte first (the layout the binding's '<q' produces)
WriteI64(v) ==
    LET mag == IF v >= 0 THEN v ELSE -v - 1
        low(i) == IF i <= 4 THEN (mag \div (256 ^ (i - 1))) % 256 ELSE 0
    IN  [i \in 1..8 |-> IF v >= 0 THEN low(i) ELSE 255 - low(i)]

\* the Int64 value of 8 stored bytes; beyond 31 bits it saturates
ReadI64(b) ==
    LET neg == b[8] >= 128
        byte(i) == IF neg THEN 255 - b[i] ELSE b[i]
        big == byte(4) >= 128 \/ \E i \in 5..8 : byte(i) # 0
        mag == IF big THEN 2147483646
               ELSE byte(1) + 256 * byte(2) + 65536 * byte(3) + 16777216 * byte(4)
    IN  IF neg THEN -mag - 1 ELSE mag

\* decode(bytes) of one field by its type
DecodeField(t, b) == IF t = BOOL THEN b[1] # 0 ELSE ReadI64(b)

\* the 8-byte field-0 value of a record
TimestampOf(rec) == ReadI64(SubSeq(rec, 1, 8))

\* ring-buffer policy is active: a capacity is set and overwrite_on_full is on
RingMode == cfg.max_file_size > 0 /\ cfg.overwrite_on_full

\* number of whole records the capacity holds: capacity / record_width
VisibleMax == cfg.max_file_size \div record_width

\* write cursor for the next record
Cursor(n) ==
    IF RingMode THEN (n * record_width) % cfg.max_file_size ELSE n * record_width

\* logical head once n records were committed
HeadAfter(n) ==
    IF RingMode /\ n > VisibleMax
    THEN ((n - VisibleMax) * record_width) % cfg.max_file_size
    ELSE 0

\* write(offset, bytes): the region after placing rec at cursor; in ring mode
\* the region is circular over max_file_size bytes and never grows beyond it
WriteAt(f, cursor, rec) ==
    LET w == Len(rec)
        cap == cfg.max_file_size
        newLen == IF RingMode
                  THEN (IF cursor + w > cap THEN cap
                        ELSE IF cursor + w > Len(f) THEN cursor + w ELSE Len(f))
                  ELSE (IF cursor + w > Len(f) THEN cursor + w ELSE Len(f))
        idx(j) == IF RingMode THEN (j - 1 - cursor + cap) % cap ELSE j - 1 - cursor
    IN  IF cursor = Len(f) /\ newLen = cursor + w
        THEN f \o rec
        ELSE [j \in 1..newLen |->
                IF idx(j) >= 0 /\ idx(j) < w THEN rec[idx(j) + 1]
                ELSE IF j <= Len(f) THEN f[j] ELSE 0]

\* bytes of the currently visible records in storage order
VisibleBytes ==
    IF RingMode /\ count > VisibleMax
    THEN [i \in 1..(VisibleMax * record_width) |->
             file[((head + i - 1) % cfg.max_file_size) + 1]]
    ELSE SubSeq(file, 1, count * record_width)

\* a failing append that has already taken the next automatic timestamp
NoCommit_ConsumesTimestamp(status) ==
    [status |-> status, file |-> file, count |-> count,
     last_timestamp |-> IF cfg.auto_increment THEN last_timestamp + 1
                        ELSE last_timestamp,
     head |-> head, latest |-> latest]

\* a failing append: "no state change, no partial write"
NoCommit(status) ==
    [status |-> status, file |-> file, count |-> count,
     last_timestamp |-> last_timestamp, head |-> head, latest |-> latest]

\* the monotonicity check taken before the length check
hocdb_append_TimestampFirst(raw) ==
    IF ~cfg.auto_increment /\ count > 0 /\ TimestampOf(raw) <= last_timestamp
    THEN NoCommit(TIMESTAMP_NOT_MONOTONIC)
    ELSE IF Len(raw) # record_width
    THEN NoCommit(INVALID_RECORD_SIZE)
    ELSE [status |-> OK,
          file |-> WriteAt(file, Cursor(count), raw),
          count |-> count + 1,
          last_timestamp |-> TimestampOf(raw),
          head |-> HeadAfter(count + 1),
          latest |-> raw]

\* append(handle, raw_record_bytes): status and the engine state after it
hocdb_append(raw) ==
    IF Len(raw) # record_width
    THEN NoCommit(INVALID_RECORD_SIZE)
    ELSE
        LET candidate == TimestampOf(raw)
            ts  == IF cfg.auto_increment THEN last_timestamp + 1 ELSE candidate
            rec == IF cfg.auto_increment
                   THEN WriteI64(ts) \o SubSeq(raw, 9, Len(raw))
                   ELSE raw
        IN  IF ~cfg.auto_increment /\ count > 0 /\ candidate <= last_timestamp
            THEN NoCommit(TIMESTAMP_NOT_MONOTONIC)
            ELSE IF cfg.max_file_size > 0 /\ ~cfg.overwrite_on_full
                    /\ (count + 1) * record_width > cfg.max_file_size
            THEN NoCommit(CAPACITY_EXCEEDED)
            ELSE [status |-> OK,
                  file |-> WriteAt(file, Cursor(count), rec),
                  count |-> count + 1,
                  last_timestamp |-> ts,
                  head |-> HeadAfter(count + 1),
                  latest |-> rec]

\* step 7 of append: with flush_on_write a committed write is synced before
\* success is reported; otherwise it stays among the writes not yet durable
Durable(r) ==
    IF r.status # OK THEN [disk |-> disk, pending |-> pending]
    ELSE IF cfg.flush_on_write THEN [disk |-> r.file, pending |-> << >>]
    ELSE [disk |-> disk,
          pending |-> Append(pending, [offset |-> Cursor(count), bytes |-> r.latest])]

\* a flush that syncs the oldest write not yet durable and no other
hocdb_flush_OneWrite ==
    IF pending = << >> THEN [status |-> OK, disk |-> disk, pending |-> pending]
    ELSE [status |-> OK,
          disk |-> WriteAt(disk, pending[1].offset, pending[1].bytes),
          pending |-> Tail(pending)]

\* flush(handle): forces durability of all writes accepted so far
hocdb_flush == [status |-> OK, disk |-> file, pending |-> << >>]

\* the medium once the first j of the given writes have reached it, in the
\* order they were issued
RECURSIVE ApplyWrites(_, _, _)
ApplyWrites(f, writes, j) ==
    IF j = 0 THEN f
    ELSE WriteAt(ApplyWrites(f, writes, j - 1), writes[j].offset, writes[j].bytes)

\* what a crash leaves: the synced bytes, the first j unsynced writes whole,
\* and the first b bytes of the write after them ("crash mid-write")
CrashImage(writes, j, b) ==
    LET f == ApplyWrites(disk, writes, j)
    IN  IF j < Len(writes) /\ b > 0
        THEN WriteAt(f, writes[j + 1].offset, SubSeq(writes[j + 1].bytes, 1, b))
        ELSE f

\* the threads that call into one handle
Threads == { "t1", "t2" }

\* a thread that is not inside hocdb_append
Idle == [pc |-> "idle", values |-> << >>, offset |-> 0, plan |-> << >>,
         placed |-> 0, returned |-> FALSE]

\* append path entered without the exclusive lock
LockFree_NoLock(t) == TRUE

\* "a single exclusive lock guarding the append path": thread t may enter
\* when no other thread is inside
LockFree(t) == \A u \in Threads \ { t } : inflight[u].pc = "idle"

\* load(handle): buffer covering all currently visible records
hocdb_load == VisibleBytes

EMPTY_DATABASE == -1

\* a field value coerced to a double: a bool becomes 1.0 or 0.0; an integer
\* of the model is small enough to be represented exactly
AsDouble(t, v) == IF t = BOOL THEN (IF v THEN 1 ELSE 0) ELSE v

\* get_latest on a series without a committed record
EmptyDatabase == [status |-> EMPTY_DATABASE, value |-> 0, timestamp |-> 0]

\* get_latest(handle, field_index): reads the cached latest record only; the
\* value comes back as an f64
hocdb_get_latest(field_index) ==
    IF latest = << >>
    THEN EmptyDatabase
    ELSE [status |-> OK,
          value |-> LET i == field_index + 1
                        off == WidthUpTo(i - 1)
                    IN  AsDouble(Schema[i].type,
                            DecodeField(Schema[i].type,
                                SubSeq(latest, off + 1, off + TypeWidth(Schema[i].type)))),
          timestamp |-> TimestampOf(latest)]

\* the visible records, each record_width bytes, in storage order
RecordsOf(bytes) ==
    [k \in 1..(Len(bytes) \div record_width) |->
        SubSeq(bytes, (k - 1) * record_width + 1, k * record_width)]

VisibleRecords == RecordsOf(VisibleBytes)

\* binary search: the first index in lo..hi-1 whose timestamp is >= t, else hi
RECURSIVE LowerBound(_, _, _, _)
LowerBound(recs, t, lo, hi) ==
    IF lo >= hi THEN lo
    ELSE LET mid == (lo + hi) \div 2
         IN  IF TimestampOf(recs[mid]) < t
             THEN LowerBound(recs, t, mid + 1, hi)
             ELSE LowerBound(recs, t, lo, mid)

\* binary search: the first index in lo..hi-1 whose timestamp is > t, else hi
RECURSIVE UpperBound(_, _, _, _)
UpperBound(recs, t, lo, hi) ==
    IF lo >= hi THEN lo
    ELSE LET mid == (lo + hi) \div 2
         IN  IF TimestampOf(recs[mid]) <= t
             THEN UpperBound(recs, t, mid + 1, hi)
             ELSE UpperBound(recs, t, lo, mid)

\* the end of the range taken as exclusive
LastInRange_Exclusive(recs, end_ts) == LowerBound(recs, end_ts, 1, Len(recs) + 1) - 1

\* index of the last record with timestamp <= end_ts: the end is inclusive
LastInRange(recs, end_ts) == UpperBound(recs, end_ts, 1, Len(recs) + 1) - 1

\* the decoded value of the field at a 0-based field_index
FieldValue(rec, field_index) ==
    LET i == field_index + 1
        off == WidthUpTo(i - 1)
    IN  DecodeField(Schema[i].type, SubSeq(rec, off + 1, off + TypeWidth(Schema[i].type)))

\* equality test of one filter, by kind: an integer predicate against an integer
\* field, a bool predicate against a bool field; other pairings never match
FilterHolds(rec, f) ==
    LET t == Schema[f.field_index + 1].type
    IN  IF f.type = I64 /\ t = I64 THEN FieldValue(rec, f.field_index) = f.val_i64
        ELSE IF f.type = BOOL /\ t = BOOL THEN FieldValue(rec, f.field_index) = f.val_bool
        ELSE FALSE

RECURSIVE ConcatMatching(_, _, _, _)
ConcatMatching(recs, i, last, c_filters) ==
    IF i > last THEN << >>
    ELSE (IF \A k \in 1..Len(c_filters) : FilterHolds(recs[i], c_filters[k])
          THEN recs[i] ELSE << >>)
         \o ConcatMatching(recs, i + 1, last, c_filters)

\* query(handle, start_ts, end_ts, filters): buffer of the matching records
QueryRecords(recs, start_ts, end_ts, c_filters) ==
    LET first == LowerBound(recs, start_ts, 1, Len(recs) + 1)
        last  == LastInRange(recs, end_ts)
    IN  ConcatMatching(recs, first, last, c_filters)

hocdb_query(start_ts, end_ts, c_filters) ==
    QueryRecords(VisibleRecords, start_ts, end_ts, c_filters)

\* the status kept for a call that came back with a null result
NULL_RESULT == -4

\* what query hands back at the C boundary: a valid buffer (of length 0 for
\* "no match"), or a null result on a true error
NullPtr == [null |-> TRUE, data |-> << >>]

Buffer(data) == [null |-> FALSE, data |-> data]

\* what load hands back at the C boundary: a valid buffer (of length 0 for an
\* empty series), or a null result on a true error
hocdb_load_ptr(io_error) ==
    IF io_error THEN NullPtr ELSE Buffer(hocdb_load)

hocdb_query_ptr(start_ts, end_ts, c_filters, io_error) ==
    IF io_error THEN NullPtr ELSE Buffer(hocdb_query(start_ts, end_ts, c_filters))

NO_DATA_IN_RANGE == -1

RECURSIVE GCD(_, _)
GCD(a, b) == IF b = 0 THEN a ELSE GCD(b, a % b)

\* sum / count as a double: the exact quotient, kept as a fraction in lowest
\* terms with a positive denominator
Quotient(sum, n) ==
    LET g == GCD(IF sum < 0 THEN -sum ELSE sum, n)
    IN  [num |-> sum \div g, den |-> n \div g]

\* a + b on doubles; a sum beyond 31 bits (reached only with stored bytes
\* that no append of the model packed) saturates like ReadI64
AddDouble(a, b) ==
    IF a > 0 /\ b > 2147483646 - a THEN 2147483646
    ELSE IF a < 0 /\ b < -2147483646 - a THEN -2147483646
    ELSE a + b

\* one linear pass over recs[i..last]: min, max, running sum and count of the
\* field's values as doubles
RECURSIVE Accumulate(_, _, _, _, _)
Accumulate(recs, i, last, field_index, acc) ==
    IF i > last THEN acc
    ELSE LET v == AsDouble(Schema[field_index + 1].type, FieldValue(recs[i], field_index))
         IN  Accumulate(recs, i + 1, last, field_index,
                        [min   |-> IF acc.count = 0 \/ v < acc.min THEN v ELSE acc.min,
                         max   |-> IF acc.count = 0 \/ v > acc.max THEN v ELSE acc.max,
                         sum   |-> AddDouble(acc.sum, v),
                         count |-> acc.count + 1])

\* the accumulator before the pass
NoValues == [min |-> 0, max |-> 0, sum |-> 0, count |-> 0]

\* get_stats over a range without a record
NoDataInRange ==
    [status |-> NO_DATA_IN_RANGE, min |-> 0, max |-> 0, sum |-> 0,
     count |-> 0, mean |-> Quotient(0, 1)]

\* get_stats(handle, start_ts, end_ts, field_index): the range-location step
\* of query, then the pass; count == 0 fails with NoDataInRange
StatsOf(recs, start_ts, end_ts, field_index) ==
    LET first == LowerBound(recs, start_ts, 1, Len(recs) + 1)
        last  == LastInRange(recs, end_ts)
        acc   == Accumulate(recs, first, last, field_index, NoValues)
    IN  IF acc.count = 0
        THEN NoDataInRange
        ELSE [status |-> OK, min |-> acc.min, max |-> acc.max, sum |-> acc.sum,
              count |-> acc.count, mean |-> Quotient(acc.sum, acc.count)]

hocdb_get_stats(start_ts, end_ts, field_index) ==
    StatsOf(VisibleRecords, start_ts, end_ts, field_index)

\* open_or_create: count and last_timestamp recovered from the tail of the
\* region; a trailing run shorter than record_width is discarded
hocdb_init(f) ==
    LET n    == Len(f) \div record_width
        tail == SubSeq(f, (n - 1) * record_width + 1, n * record_width)
    IN  [file |-> SubSeq(f, 1, n * record_width),
         count |-> n,
         last_timestamp |-> IF n > 0 THEN TimestampOf(tail) ELSE 0,
         head |-> 0,
         latest |-> IF n > 0 THEN tail ELSE << >>]

(***************************************************************************)
(* Binding: the methods of class HOCDB.                                    *)
(***************************************************************************)
\* addresses at the C boundary: the null pointer, and the buffer the engine
\* allocated for the call
NULL == 0

BufferAddress == 1

Address(data_ptr) == IF data_ptr.null THEN NULL ELSE BufferAddress

\* result is what the last call gave back: the engine's status (NoCall when
\* the binding did not reach the engine), the exception raised, the value
\* returned, and for append and query the arguments of the call; for load
\* and query also the pointer the engine handed back (ptr) and the pointers
\* the binding passed to hocdb_free during the call (freed)
NoCall == 1

Outcome(op, status, exc, ret, recs) ==
    [op |-> op, args |-> << >>, status |-> status, exc |-> exc, ret |-> ret,
     recs |-> recs, ptr |-> NULL, freed |-> << >>]

\* the outcome of HOCDB(...) with a handle that is not null
Opened == Outcome("init", OK, "", TRUE, << >>)

\* the process died: no call returned
Died == Outcome("crash", NoCall, "", FALSE, << >>)

\* append raised ValueError before it called the engine
NotPacked == Outcome("append", NoCall, "ValueError", FALSE, << >>)

\* the binding raises before calling the engine: nothing changes
Raise(op, exc) ==
    /\ result' = Outcome(op, NoCall, exc, FALSE, << >>)
    /\ UNCHANGED << cfg, handle, file, count, last_timestamp, head, latest,
                    disk, pending, inflight, accepted, crashes, sinceOpen >>

\* "return True" once no exception was raised, in place of "result == 0"
AppendOutcome_ReturnsTrue(status) ==
    IF status = INVALID_RECORD_SIZE \/ status = TIMESTAMP_NOT_MONOTONIC
    THEN Outcome("append", status, "ValueError", FALSE, << >>)
    ELSE Outcome("append", status, "", TRUE, << >>)

\* lines 277-286: status -2 and -3 raise ValueError, otherwise result == 0
AppendOutcome(status) ==
    IF status = INVALID_RECORD_SIZE \/ status = TIMESTAMP_NOT_MONOTONIC
    THEN Outcome("append", status, "ValueError", FALSE, << >>)
    ELSE Outcome("append", status, "", status = OK, << >>)

\* hocdb_append(self.handle, record_data, len(record_data)) and what follows.
\* The history keeps the caller's values; a timestamp that auto_increment
\* ignores is kept as 0.
CallAppend(record_data, values) ==
    \E r \in { hocdb_append(record_data) } :
        /\ file' = r.file
        /\ count' = r.count
        /\ last_timestamp' = r.last_timestamp
        /\ head' = r.head
        /\ latest' = r.latest
        /\ result' = [AppendOutcome(r.status) EXCEPT !.args = values]
        /\ accepted' = IF r.status # OK THEN accepted
                       ELSE Append(accepted, IF cfg.auto_increment
                                             THEN << 0 >> \o Tail(values)
                                             ELSE values)
        /\ sinceOpen' = IF r.status = OK THEN sinceOpen + 1 ELSE sinceOpen
        /\ disk' = Durable(r).disk
        /\ pending' = Durable(r).pending
        /\ UNCHANGED << cfg, handle, inflight, crashes >>

\* hocdb_append called at the C boundary with bytes no binding packed
hocdb_append_raw(raw) ==
    \E r \in { hocdb_append(raw) } :
        /\ r.status # OK
        /\ result' = Outcome("hocdb_append", r.status, "", FALSE, << >>)
        /\ file' = r.file
        /\ count' = r.count
        /\ last_timestamp' = r.last_timestamp
        /\ head' = r.head
        /\ latest' = r.latest
        /\ UNCHANGED << cfg, handle, disk, pending, inflight, accepted, crashes, sinceOpen >>

\* hocdb_append by thread t, step 1: under the lock the record is validated
\* against the state read at entry; a failure returns at once, a success
\* leaves the planned commit with the thread
append_enter(t, values) ==
    /\ handle /\ Len(values) = Len(Schema)
    /\ inflight[t].pc = "idle"
    /\ LockFree(t)
    /\ \E r \in { hocdb_append(struct_pack(values)) } :
        IF r.status # OK
        THEN /\ result' = [AppendOutcome(r.status) EXCEPT !.args = values]
             /\ UNCHANGED << cfg, handle, file, count, last_timestamp, head, latest,
                             disk, pending, inflight, accepted, crashes, sinceOpen >>
        ELSE /\ inflight' = [inflight EXCEPT ![t] =
                                [pc |-> "placing", values |-> values,
                                 offset |-> Cursor(count), plan |-> r,
                                 placed |-> 0, returned |-> @.returned]]
             /\ UNCHANGED << cfg, handle, file, count, last_timestamp, head, latest,
                             disk, pending, accepted, crashes, sinceOpen, result >>

\* step 2: the first b bytes of the record are in the region; count, head and
\* the cached state still describe the series without it
append_place(t, b) ==
    /\ inflight[t].pc = "placing"
    /\ b > inflight[t].placed
    /\ file' = WriteAt(file, inflight[t].offset, SubSeq(inflight[t].plan.latest, 1, b))
    /\ inflight' = [inflight EXCEPT ![t].placed = b]
    /\ UNCHANGED << cfg, handle, count, last_timestamp, head, latest, disk, pending,
                    accepted, crashes, sinceOpen, result >>

\* step 3: all bytes placed, then count, head, last_timestamp and the cached
\* latest record move in one commit, and append returns True
append_commit(t) ==
    LET me == inflight[t]
    IN  /\ me.pc = "placing"
        /\ file' = WriteAt(file, me.offset, me.plan.latest)
        /\ count' = me.plan.count
        /\ last_timestamp' = me.plan.last_timestamp
        /\ head' = me.plan.head
        /\ latest' = me.plan.latest
        /\ disk' = IF cfg.flush_on_write THEN file' ELSE disk
        /\ pending' = IF cfg.flush_on_write THEN << >>
                      ELSE Append(pending, [offset |-> me.offset, bytes |-> me.plan.latest])
        /\ accepted' = Append(accepted, IF cfg.auto_increment
                                        THEN << 0 >> \o Tail(me.values) ELSE me.values)
        /\ sinceOpen' = sinceOpen + 1
        /\ result' = [AppendOutcome(me.plan.status) EXCEPT !.args = me.values]
        /\ inflight' = [inflight EXCEPT ![t] = [Idle EXCEPT !.returned = TRUE]]
        /\ UNCHANGED << cfg, handle, crashes >>

\* append(*args) with the field values given positionally or as one list/tuple
append(values) ==
    IF ~handle THEN Raise("append", "RuntimeError")
    ELSE IF Len(values) # Len(Schema) THEN Raise("append", "ValueError")
    ELSE CallAppend(struct_pack(values), values)

\* create_record_bytes(schema, *values): the fields packed one by one, '<q'
\* for an I64 and '?' for a BOOL, and concatenated (<< >> stands for the
\* ValueError of a wrong number of values)
create_record_bytes(values) ==
    IF Len(values) # Len(Schema) THEN << >> ELSE PackUpTo(values, Len(Schema))

\* append(record) with one bytes object: args is the 1-tuple holding it; a
\* bytes object is no list, tuple or dict and has no __dict__, so values stays
\* that 1-tuple.  It fails the length test unless the schema has one field,
\* and then struct.pack of a bytes object under 'q' raises struct.error, which
\* is raised again as ValueError.
append_bytes(record) ==
    LET values == << record >>
    IN  IF ~handle THEN Raise("append", "RuntimeError")
        ELSE /\ result' = [NotPacked EXCEPT !.args = values]
             /\ Len(values) # Len(Schema) \/ Schema[1].type = I64
             /\ UNCHANGED << cfg, handle, file, count, last_timestamp, head, latest,
                             disk, pending, inflight, accepted, crashes, sinceOpen >>

\* the copy and the decoding inside "try", with hocdb_free after a
\* successful decoding in place of "finally"
CopyAndFree_NoFinally(op, data_ptr, decode_error) ==
    IF data_ptr.null
    THEN [Outcome(op, NULL_RESULT, "", TRUE, << >>) EXCEPT !.ptr = Address(data_ptr)]
    ELSE IF decode_error
    THEN [Outcome(op, OK, "Exception", FALSE, << >>) EXCEPT !.ptr = Address(data_ptr)]
    ELSE [Outcome(op, OK, "", TRUE, _unpack_records(data_ptr.data))
            EXCEPT !.ptr = Address(data_ptr), !.freed = << Address(data_ptr) >>]

\* the end of load and of query: "if not data_ptr: return []"; else "try:"
\* the buffer is copied with string_at and decoded by _unpack_records,
\* "finally:" hocdb_free(data_ptr), whether the try block returned or raised
CopyAndFree(op, data_ptr, decode_error) ==
    IF data_ptr.null
    THEN [Outcome(op, NULL_RESULT, "", TRUE, << >>) EXCEPT !.ptr = Address(data_ptr)]
    ELSE [(IF decode_error
           THEN Outcome(op, OK, "Exception", FALSE, << >>)
           ELSE Outcome(op, OK, "", TRUE, _unpack_records(data_ptr.data)))
            EXCEPT !.ptr = Address(data_ptr), !.freed = << Address(data_ptr) >>]

\* load() that leaves the ring rewound to its physical start once the
\* visible records are copied out
load_RewindsHead ==
    IF ~handle THEN Raise("load", "RuntimeError")
    ELSE /\ result' = CopyAndFree("load", hocdb_load_ptr(FALSE), FALSE)
         /\ head' = 0
         /\ UNCHANGED << cfg, handle, file, count, last_timestamp, latest,
                         disk, pending, inflight, accepted, crashes, sinceOpen >>

\* load(), with whether the engine meets a true error while it serves the
\* call and whether the copy or the decoding of the buffer raises
load_with(io_error, decode_error) ==
    IF ~handle THEN Raise("load", "RuntimeError")
    ELSE /\ result' = CopyAndFree("load", hocdb_load_ptr(io_error), decode_error)
         /\ UNCHANGED << cfg, handle, file, count, last_timestamp, head, latest,
                         disk, pending, inflight, accepted, crashes, sinceOpen >>

\* load() served without an error
load == load_with(FALSE, FALSE)

\* flush() without the test of self.handle
flush_NoHandleTest ==
    \E r \in { hocdb_flush } :
        /\ disk' = r.disk
        /\ pending' = r.pending
        /\ result' = Outcome("flush", r.status, "", r.status = 0, << >>)
        /\ UNCHANGED << cfg, handle, file, count, last_timestamp, head, latest,
                        inflight, accepted, crashes, sinceOpen >>

\* flush(): hocdb_flush, True on status 0
flush ==
    IF ~handle THEN Raise("flush", "RuntimeError")
    ELSE \E r \in { hocdb_flush } :
            /\ disk' = r.disk
            /\ pending' = r.pending
            /\ result' = Outcome("flush", r.status, "", r.status = 0, << >>)
            /\ UNCHANGED << cfg, handle, file, count, last_timestamp, head, latest,
                            inflight, accepted, crashes, sinceOpen >>

\* _resolve_field_index: an int is the index itself, a str is looked up in
\* _field_map (-1 here stands for the ValueError of an unknown name)
_resolve_field_index(field) ==
    IF field.pytype = "int" THEN field.index
    ELSE IF field.name \in FieldNames THEN FieldIndex(field.name) - 1
    ELSE -1

\* get_stats(start_ts, end_ts, field): any status but 0 raises RuntimeError
get_stats(start_ts, end_ts, field) ==
    IF ~handle THEN Raise("get_stats", "RuntimeError")
    ELSE IF _resolve_field_index(field) < 0 THEN Raise("get_stats", "ValueError")
    ELSE \E r \in { hocdb_get_stats(start_ts, end_ts, _resolve_field_index(field)) } :
            /\ result' = [(IF r.status # 0
                           THEN Outcome("get_stats", r.status, "RuntimeError", FALSE, << >>)
                           ELSE Outcome("get_stats", r.status, "", TRUE,
                                        [min |-> r.min, max |-> r.max, sum |-> r.sum,
                                         count |-> r.count, mean |-> r.mean]))
                            EXCEPT !.args = << start_ts, end_ts, field >>]
            /\ UNCHANGED << cfg, handle, file, count, last_timestamp, head, latest,
                            disk, pending, inflight, accepted, crashes, sinceOpen >>

\* get_latest(field): any status but 0 raises RuntimeError
get_latest(field) ==
    IF ~handle THEN Raise("get_latest", "RuntimeError")
    ELSE IF _resolve_field_index(field) < 0 THEN Raise("get_latest", "ValueError")
    ELSE \E r \in { hocdb_get_latest(_resolve_field_index(field)) } :
            /\ result' = [(IF r.status # 0
                           THEN Outcome("get_latest", r.status, "RuntimeError", FALSE, << >>)
                           ELSE Outcome("get_latest", r.status, "", TRUE,
                                        [value |-> r.value, timestamp |-> r.timestamp]))
                            EXCEPT !.args = << field >>]
            /\ UNCHANGED << cfg, handle, file, count, last_timestamp, head, latest,
                            disk, pending, inflight, accepted, crashes, sinceOpen >>

\* the kinds a filter is tagged with besides I64 and BOOL
F64 == 2

StringKind == 5

\* val.encode('utf-8') of the strings the model filters by, without the zero
\* padding of the 128-byte slot
Utf8(s) == IF s = "up" THEN << 117, 112 >> ELSE << >>

\* isinstance(val, int): a Python bool is an int as well
IsInt(f) == f.pytype = "int" \/ f.pytype = "bool"

\* lines 361-401: one HOCDBFilter from one filter dict; the isinstance tests
\* run in the order int, float, str, bool
CFilter(f) ==
    [field_index |-> IF f.syntax = "named" THEN FieldIndex(f.key) - 1 ELSE f.field_index,
     type        |-> IF IsInt(f) THEN I64
                     ELSE IF f.pytype = "float" THEN F64
                     ELSE IF f.pytype = "str" THEN StringKind
                     ELSE IF f.pytype = "bool" THEN BOOL ELSE 0,
     val_i64     |-> IF IsInt(f)
                     THEN (IF f.pytype = "bool" THEN (IF f.truth THEN 1 ELSE 0) ELSE f.value)
                     ELSE 0,
     val_f64     |-> IF ~IsInt(f) /\ f.pytype = "float" THEN f.value ELSE 0,
     val_string  |-> IF ~IsInt(f) /\ f.pytype = "str" THEN Utf8(f.text) ELSE << >>,
     val_bool    |-> IF ~IsInt(f) /\ f.pytype = "bool" THEN f.truth ELSE FALSE]

\* lines 414-423 when nothing raises inside the try block
QueryReturn(data_ptr) == CopyAndFree("query", data_ptr, FALSE)

\* query(start_ts, end_ts, filters), with whether the engine meets a true
\* error while it serves the call and whether the copy or the decoding of
\* the buffer raises
query_with(start_ts, end_ts, filters, io_error, decode_error) ==
    IF ~handle THEN Raise("query", "RuntimeError")
    ELSE IF \E k \in 1..Len(filters) :
                filters[k].syntax = "named" /\ filters[k].key \notin FieldNames
    THEN Raise("query", "ValueError")
    ELSE LET c_filters == [k \in 1..Len(filters) |-> CFilter(filters[k])]
             data_ptr == hocdb_query_ptr(start_ts, end_ts, c_filters, io_error)
         IN  /\ result' = [CopyAndFree("query", data_ptr, decode_error)
                             EXCEPT !.args = << start_ts, end_ts, filters >>]
             /\ UNCHANGED << cfg, handle, file, count, last_timestamp, head, latest,
                             disk, pending, inflight, accepted, crashes, sinceOpen >>

\* query(start_ts, end_ts, filters), with whether the engine meets a true
\* error while it serves the call
query_io(start_ts, end_ts, filters, io_error) ==
    query_with(start_ts, end_ts, filters, io_error, FALSE)

\* query(start_ts, end_ts, filters) served without an error in the engine
query(start_ts, end_ts, filters) == query_io(start_ts, end_ts, filters, FALSE)

\* HOCDB(ticker, path, schema, ...): hocdb_init on the path's segment
init(f) ==
    LET e == hocdb_init(f)
    IN  /\ handle' = TRUE
        /\ file' = e.file
        /\ count' = e.count
        /\ last_timestamp' = e.last_timestamp
        /\ head' = e.head
        /\ latest' = e.latest
        /\ sinceOpen' = 0
        /\ disk' = e.file
        /\ pending' = << >>
        /\ result' = Opened
        /\ UNCHANGED << cfg, inflight, accepted, crashes >>

\* close() without the test of self.handle: hocdb_close is called again
close_CallsEngineAgain ==
    /\ result' = Outcome("close", OK, "", TRUE, << >>)
    /\ handle' = FALSE
    /\ count' = 0 /\ last_timestamp' = 0 /\ head' = 0 /\ latest' = << >>
    /\ sinceOpen' = 0
    /\ disk' = hocdb_flush.disk
    /\ pending' = hocdb_flush.pending
    /\ UNCHANGED << cfg, file, inflight, accepted, crashes >>

\* close(): hocdb_close releases the handle; a closed handle is left alone
close ==
    /\ result' = Outcome("close", IF handle THEN OK ELSE NoCall, "", TRUE, << >>)
    /\ handle' = FALSE
    /\ IF handle
       THEN /\ count' = 0 /\ last_timestamp' = 0 /\ head' = 0 /\ latest' = << >>
            /\ sinceOpen' = 0
            /\ disk' = hocdb_flush.disk
            /\ pending' = hocdb_flush.pending
       ELSE UNCHANGED << count, last_timestamp, head, latest, sinceOpen, disk, pending >>
    /\ UNCHANGED << cfg, file, inflight, accepted, crashes >>

\* The process dies with the handle open, possibly inside an append of the
\* given values (<< >>: inside no call).  The medium keeps CrashImage; the
\* history keeps the appends whose writes reached the medium whole.  The
\* outcome remembers the records passed to append up to the crash, how many
\* of them the last sync (flush, or an append under flush_on_write) covered,
\* and whether the crash came inside an append.
crash(values, j, b) ==
    LET r == hocdb_append(struct_pack(values))
        executing == values # << >> /\ r.status = OK
        writes == IF executing
                  THEN Append(pending, [offset |-> Cursor(count), bytes |-> r.latest])
                  ELSE pending
        passed == IF executing
                  THEN Append(accepted, IF cfg.auto_increment
                                        THEN << 0 >> \o Tail(values) ELSE values)
                  ELSE accepted
        synced == Len(accepted) - Len(pending)
    IN  /\ handle
        /\ values # << >> => r.status = OK
        /\ j <= Len(writes)
        /\ b > 0 => j < Len(writes)
        /\ file' = CrashImage(writes, j, b)
        /\ disk' = file'
        /\ pending' = << >>
        /\ handle' = FALSE
        /\ count' = 0 /\ last_timestamp' = 0 /\ head' = 0 /\ latest' = << >>
        /\ sinceOpen' = 0
        /\ accepted' = SubSeq(passed, 1, synced + j)
        /\ crashes' = crashes + 1
        /\ result' = [Died EXCEPT !.args = << passed, synced, executing >>]
        /\ UNCHANGED << cfg, inflight >>

(***************************************************************************)
(* Inputs and the specification.                                           *)
(***************************************************************************)
Payloads == { << 7, FALSE >>, << -2, TRUE >> }

Values == { << ts, p[1], p[2] >> : ts \in 1..MaxTs, p \in Payloads }

\* a call with one value too few
ShortValues == { << 1, 0 >> }

Capacities == { 0, CapRecords * record_width, CapRecords * record_width + 5 }

\* flush_on_write acts on nothing but what a crash leaves on the medium: the
\* sessions that never crash are opened with the default, flush_on_write=False
Configs ==
    { c \in [max_file_size : Capacities, overwrite_on_full : BOOLEAN,
             flush_on_write : { FALSE }, auto_increment : BOOLEAN] :
        c.max_file_size = 0 => ~c.overwrite_on_full }

\* HOCDB(ticker, path, schema, ...) on a path that holds no data
Init ==
    /\ cfg \in Configs
    /\ handle = TRUE
    /\ file = << >>
    /\ count = 0
    /\ last_timestamp = 0
    /\ head = 0
    /\ latest = << >>
    /\ disk = << >>
    /\ pending = << >>
    /\ inflight = [t \in Threads |-> Idle]
    /\ accepted = << >>
    /\ crashes = 0
    /\ sinceOpen = 0
    /\ result = Opened

\* filter dicts: {"event": -2}, {"field_index": 0, "value": 2}, {"nosuch": 1};
\* the value of a dict is a number in value, a bool in truth or a str in
\* text, as pytype says
NamedFilter(key, v) ==
    [syntax |-> "named", key |-> key, field_index |-> -1, pytype |-> "int",
     value |-> v, truth |-> FALSE, text |-> ""]

LegacyFilter(i, v) ==
    [syntax |-> "legacy", key |-> "", field_index |-> i, pytype |-> "int",
     value |-> v, truth |-> FALSE, text |-> ""]

FilterLists ==
    { << >>,
      << NamedFilter("event", -2) >>,
      << LegacyFilter(1, 7), LegacyFilter(0, 2) >>,
      << NamedFilter("nosuch", 1) >> }

\* filter dicts of each value type in both syntaxes: {"flag": True},
\* {"field_index": 2, "value": False}, {"event": 7}, {"event": 7.0},
\* {"field_index": 1, "value": -2.0}, {"event": "up"},
\* {"field_index": 1, "value": "up"}
BoolValued(f, b) == [f EXCEPT !.pytype = "bool", !.value = 0, !.truth = b]

FloatValued(f) == [f EXCEPT !.pytype = "float"]

StrValued(f, t) == [f EXCEPT !.pytype = "str", !.value = 0, !.text = t]

TypedFilterLists ==
    { << BoolValued(NamedFilter("flag", 0), TRUE) >>,
      << BoolValued(LegacyFilter(2, 0), FALSE) >>,
      << NamedFilter("event", 7) >>,
      << FloatValued(NamedFilter("event", 7)) >>,
      << FloatValued(LegacyFilter(1, -2)) >>,
      << StrValued(NamedFilter("event", 0), "up") >>,
      << StrValued(LegacyFilter(1, 0), "up") >> }

AppendCall == \E v \in Values \cup ShortValues : append(v) /\ Len(accepted') <= MaxAppends

\* byte strings that are not one record of the schema: the 8 bytes of a
\* one-field record, and a whole record followed by one more byte
RawRecords == { PackQ(1), struct_pack(<< 1, 7, TRUE >>) \o << 0 >> }

RawAppendCall == \E raw \in RawRecords : handle /\ hocdb_append_raw(raw)

LoadCall == load

CloseCall == close

\* query windows: the whole range, a window whose two ends are timestamps,
\* and an empty one
Windows == { << 0, MaxTs + 1 >>, << 2, 3 >>, << 3, 2 >> }

QueryCall ==
    \E w \in Windows, filters \in FilterLists : query(w[1], w[2], filters)

\* queries during which the engine may meet a true error
QueryIoCall ==
    \E w \in Windows, filters \in FilterLists, io_error \in BOOLEAN :
        query_io(w[1], w[2], filters, io_error)

\* queries over the whole range with one filter of each value type
TypedQueryCall == \E filters \in TypedFilterLists : query(0, MaxTs + 1, filters)

\* loads and queries during which the engine may meet a true error and the
\* copy or the decoding of the buffer may raise
LoadWithCall ==
    \E io_error \in BOOLEAN, decode_error \in BOOLEAN : load_with(io_error, decode_error)

QueryWithCall ==
    \E w \in Windows, filters \in FilterLists,
       io_error \in BOOLEAN, decode_error \in BOOLEAN :
        query_with(w[1], w[2], filters, io_error, decode_error)

\* records encoded by the caller, as the tests pass them to append
EncodedRecords == { create_record_bytes(v) : v \in Values }

AppendBytesCall == \E record \in EncodedRecords : append_bytes(record)

\* a new handle on the same path, schema and configuration after a close
ReopenCall == ~handle /\ init(file)

Next == AppendCall \/ RawAppendCall \/ LoadCall \/ QueryCall \/ CloseCall

NextReopen == Next \/ ReopenCall

\* the field arguments of get_stats and get_latest: an index, names of an
\* integer and of a bool field, and a name the schema does not have
ByIndex(i) == [pytype |-> "int", index |-> i, name |-> ""]

ByName(n) == [pytype |-> "str", index |-> 0, name |-> n]

Fields == { ByIndex(1), ByName("timestamp"), ByName("flag"), ByName("nosuch") }

GetLatestCall == \E field \in Fields : get_latest(field)

\* ranges of get_stats: the whole range, the two oldest timestamps, and an
\* empty one
StatsWindows == { << 0, MaxTs + 1 >>, << 1, 2 >>, << 3, 2 >> }

GetStatsCall == \E w \in StatsWindows, field \in Fields : get_stats(w[1], w[2], field)

NextReads == AppendCall \/ GetLatestCall \/ GetStatsCall \/ CloseCall \/ ReopenCall

\* how many bytes of a record are in the region when its write is cut short
\* or observed half way
TornLengths == { FieldWidth(I64), _record_size - 1 }

\* the records appended by threads and by sessions that may crash: one
\* payload per timestamp
DurabilityValues == { v \in Values : (v[1] % 2 = 1) <=> (v[2] = 7) }

\* two threads on one handle: appends in the three steps of the engine, and
\* reads between the steps
EnterCall ==
    \E t \in Threads, v \in DurabilityValues :
        /\ Len(accepted) + Cardinality({ u \in Threads : inflight[u].pc # "idle" })
              < MaxAppends
        /\ append_enter(t, v)

PlaceCall == \E t \in Threads, b \in TornLengths : append_place(t, b)

CommitCall == \E t \in Threads : append_commit(t)

\* the reads a thread issues while the other one appends, each over the
\* whole range of timestamps
TimestampByName == ByName("timestamp")

EventByIndex == ByIndex(1)

ReadCall ==
    \/ load
    \/ query(0, MaxTs + 1, << >>)
    \/ get_latest(TimestampByName)
    \/ get_stats(0, MaxTs + 1, EventByIndex)

NextThreads == EnterCall \/ PlaceCall \/ CommitCall \/ ReadCall

\* every configuration, flush_on_write on and off
DurabilityConfigs ==
    { c \in [max_file_size : Capacities, overwrite_on_full : BOOLEAN,
             flush_on_write : BOOLEAN, auto_increment : BOOLEAN] :
        c.max_file_size = 0 => ~c.overwrite_on_full }

InitCrash ==
    /\ cfg \in DurabilityConfigs
    /\ handle = TRUE
    /\ file = << >>
    /\ count = 0
    /\ last_timestamp = 0
    /\ head = 0
    /\ latest = << >>
    /\ disk = << >>
    /\ pending = << >>
    /\ inflight = [t \in Threads |-> Idle]
    /\ accepted = << >>
    /\ crashes = 0
    /\ sinceOpen = 0
    /\ result = Opened

FlushCall == flush

DurableAppendCall ==
    \E v \in DurabilityValues : append(v) /\ Len(accepted') <= MaxAppends

CrashCall ==
    /\ handle
    /\ crashes < MaxCrashes
    /\ \E values \in { << >> } \cup DurabilityValues :
        \E j \in 0..(Len(pending) + 1), b \in { 0 } \cup TornLengths :
            crash(values, j, b)

NextCrash == DurableAppendCall \/ FlushCall \/ CrashCall \/ ReopenCall

\* the life of a handle: every method before and after close, and the next
\* handle on the same path
NextLifecycle == AppendCall \/ FlushCall \/ ReadCall \/ CloseCall \/ ReopenCall

\* one session of appends and of queries the engine may fail to serve
NextQuery == AppendCall \/ QueryIoCall \/ CloseCall

\* one session of appends by values and by encoded records
NextBytes == AppendCall \/ AppendBytesCall \/ LoadCall \/ CloseCall

\* appends and queries filtered by values of each type
NextFilters == AppendCall \/ TypedQueryCall \/ CloseCall

\* appends, and the two calls that are handed a buffer by the engine
NextBuffers == AppendCall \/ LoadWithCall \/ QueryWithCall \/ CloseCall

\* appends with the four reads between them, on an open and on a closed handle
NextReadOnly == AppendCall \/ ReadCall \/ CloseCall

\* one session on a fresh series
Spec == Init /\ [][Next]_vars

\* sessions on one path, each opened after the previous one was closed
SpecReopen == Init /\ [][NextReopen]_vars

\* sessions on one path that append and read the aggregates
SpecReads == Init /\ [][NextReads]_vars

\* one session in which two threads append and read
SpecThreads == Init /\ [][NextThreads]_vars

\* a session that a crash ends, and the sessions on its path after the crash
SpecCrash == InitCrash /\ [][NextCrash]_vars

\* sessions on one path with calls on the handle after it was closed
SpecLifecycle == Init /\ [][NextLifecycle]_vars

\* one session whose queries may fail in the engine
SpecQuery == Init /\ [][NextQuery]_vars

\* one session that appends field values and encoded records
SpecBytes == Init /\ [][NextBytes]_vars

\* one session of appends and typed queries
SpecFilters == Init /\ [][NextFilters]_vars

\* one session of appends, loads and queries that may fail
SpecBuffers == Init /\ [][NextBuffers]_vars

\* one session of appends and reads
SpecReadOnly == Init /\ [][NextReadOnly]_vars


\* ---------------------------------------------------------------------
\* What the callers supplied, as the reference the results are compared to

\* the field values the i-th accepted record must carry
ExpectedValues(i) ==
    IF cfg.auto_increment THEN << i >> \o Tail(accepted[i]) ELSE accepted[i]

\* every accepted record, as dicts, in commit order
Committed == [i \in 1..Len(accepted) |-> RecordDict(ExpectedValues(i))]

\* how many whole records the capacity holds
Slots == cfg.max_file_size \div _record_size

\* the accepted records a reader must see: all of them, or the newest Slots
Survivors ==
    LET n == Len(accepted)
        k == IF cfg.max_file_size = 0 \/ n <= Slots THEN n ELSE Slots
    IN  SubSeq(Committed, n - k + 1, n)

\* what load returns in the current state
Loaded == _unpack_records(hocdb_load)

Increasing(recs) ==
    \A i, j \in 1..Len(recs) : i < j => recs[i].timestamp < recs[j].timestamp

InWindow(recs, start_ts, end_ts) ==
    LET Hit(r) == start_ts <= r.timestamp /\ r.timestamp <= end_ts
    IN  SelectSeq(recs, Hit)

\* ---------------------------------------------------------------------
\* C1: with auto_increment off and no capacity limit, load returns exactly
\* the records whose appends succeeded, field for field, in commit order,
\* and as many records as there were successful appends.
C1_RoundTrip ==
    (result.op = "load" /\ result.exc = ""
        /\ ~cfg.auto_increment /\ cfg.max_file_size = 0)
    => /\ Len(result.recs) = Len(accepted)
       /\ result.recs = [i \in 1..Len(accepted) |-> RecordDict(accepted[i])]

\* a load that returned three records, with a negative field and both flags
C1_Witness ==
    /\ result.op = "load" /\ result.exc = ""
    /\ ~cfg.auto_increment /\ cfg.max_file_size = 0
    /\ Len(result.recs) = 3
    /\ \E i, j \in 1..3 : /\ result.recs[i].event = -2 /\ result.recs[i].flag
                          /\ result.recs[j].event = 7 /\ ~result.recs[j].flag

C5_AutoNumbers ==
    [][(/\ handle /\ cfg.auto_increment
        /\ result'.op = "append" /\ result'.ret
        /\ append(result'.args))
       => LET i == Len(accepted) + 1
              stored == struct_unpack(latest')
              recs == _unpack_records(hocdb_load')
          IN  /\ stored = << i >> \o Tail(result'.args)
              /\ Len(recs) > 0
              /\ recs[Len(recs)] = RecordDict(<< i >> \o Tail(result'.args))
              /\ recs = Survivors']_vars

\* the second record of a series, supplied with timestamp 3, stored with 2
C5_Witness ==
    /\ cfg.auto_increment
    /\ result.op = "append" /\ result.ret
    /\ result.args[1] = 3
    /\ Len(accepted) = 2
    /\ last_timestamp = 2


\* the timestamps of a list of records
Timestamps(recs) == [i \in 1..Len(recs) |-> recs[i].timestamp]

NotWrapped == ~(RingMode /\ Len(accepted) > Slots)

\* C7: on a series that has not wrapped, query(start, end) without filters
\* returns exactly the visible records with start <= timestamp <= end, both
\* ends inclusive, in ascending timestamp order.
C7_QueryRange ==
    (result.op = "query" /\ result.exc = "" /\ result.args[3] = << >> /\ NotWrapped)
    => /\ result.recs = InWindow(Committed, result.args[1], result.args[2])
       /\ result.recs = InWindow(Loaded, result.args[1], result.args[2])
       /\ Increasing(result.recs)

\* query(2, 3) of records stamped 1, 2, 3 returned those stamped 2 and 3
C7_Witness ==
    /\ result.op = "query" /\ result.args = << 2, 3, << >> >>
    /\ ~cfg.auto_increment /\ cfg.max_file_size = 0
    /\ Timestamps(Committed) = << 1, 2, 3 >>
    /\ Timestamps(result.recs) = << 2, 3 >>

\* the field a filter dict names
FilterField(f) == IF f.syntax = "named" THEN f.key ELSE Schema[f.field_index + 1].name

Satisfies(r, filters) ==
    \A k \in 1..Len(filters) : r[FilterField(filters[k])] = filters[k].value

Filtered(recs, filters) ==
    LET Hit(r) == Satisfies(r, filters)
    IN  SelectSeq(recs, Hit)

RECURSIVE IsSubsequence(_, _)
IsSubsequence(a, b) ==
    IF a = << >> THEN TRUE
    ELSE IF b = << >> THEN FALSE
    ELSE IF Head(a) = Head(b) THEN IsSubsequence(Tail(a), Tail(b))
    ELSE IsSubsequence(a, Tail(b))

C10_RejectWhenFull ==
    [][/\ (handle' /\ cfg.max_file_size > 0 /\ ~cfg.overwrite_on_full)
          => count' * record_width <= cfg.max_file_size
       /\ (/\ handle /\ cfg.max_file_size > 0 /\ ~cfg.overwrite_on_full
           /\ result'.op = "append" /\ Len(result'.args) = Len(Schema)
           /\ (cfg.auto_increment \/ Len(accepted) = 0
                 \/ result'.args[1] > accepted[Len(accepted)][1])
           /\ append(result'.args))
          => IF (count + 1) * record_width <= cfg.max_file_size
             THEN /\ result'.status = OK /\ result'.ret
                  /\ count' = count + 1
             ELSE /\ result'.status = CAPACITY_EXCEEDED
                  /\ result'.exc = "" /\ ~result'.ret
                  /\ count' = count
                  /\ hocdb_load' = hocdb_load]_vars

\* a valid record refused by a full series whose capacity has room to spare
\* for less than one more record
C10_Witness ==
    /\ cfg.max_file_size > 0 /\ ~cfg.overwrite_on_full
    /\ cfg.max_file_size % record_width # 0
    /\ result.op = "append" /\ result.status = CAPACITY_EXCEEDED
    /\ ~result.ret /\ result.exc = ""
    /\ count = Slots

KeepIf(recs, first, p(_)) ==
    LET Pos == { i \in 1..Len(recs) : p(first + i - 1) }
        nth(k) == CHOOSE i \in Pos : Cardinality({ m \in Pos : m <= i }) = k
    IN  [k \in 1..Cardinality(Pos) |-> recs[nth(k)]]

\* the accepted records the capacity keeps that were among the first n
SurvivorsOfFirst(n) ==
    LET Early(i) == i <= n
    IN  KeepIf(Survivors, Len(accepted) - Len(Survivors) + 1, Early)

PassedDicts(passed) ==
    [i \in 1..Len(passed) |->
        RecordDict(IF cfg.auto_increment THEN << i >> \o Tail(passed[i]) ELSE passed[i])]

ArgField(field) == IF field.pytype = "int" THEN Schema[field.index + 1].name ELSE field.name

\* the named field of a record as the number a Python float compares equal
\* to: True == 1.0 and False == 0.0
Num(r, name) ==
    IF Schema[FieldIndex(name)].type = BOOL THEN (IF r[name] THEN 1 ELSE 0) ELSE r[name]

\* the most recently committed record
Newest == Committed[Len(accepted)]

RECURSIVE SumOf(_, _)
SumOf(recs, name) ==
    IF recs = << >> THEN 0 ELSE Num(Head(recs), name) + SumOf(Tail(recs), name)

\* the visible records a get_stats call ranges over
StatsRange == InWindow(Survivors, result.args[1], result.args[2])

SurvivorsOf(acc) ==
    LET P == PassedDicts(acc)
        n == Len(P)
        k == IF cfg.max_file_size = 0 \/ n <= Slots THEN n ELSE Slots
    IN  SubSeq(P, n - k + 1, n)

\* the outcome res of a read is the one a series holding the records S gives
ReadOf(res, S) ==
    CASE res.op = "load" -> res.recs = S
      [] res.op = "query" ->
            res.recs = Filtered(InWindow(S, res.args[1], res.args[2]), res.args[3])
      [] res.op = "get_latest" ->
            IF S = << >> THEN res.exc = "RuntimeError"
            ELSE /\ res.exc = ""
                 /\ res.recs = [value |-> Num(S[Len(S)], ArgField(res.args[1])),
                                timestamp |-> S[Len(S)].timestamp]
      [] res.op = "get_stats" ->
            LET R == InWindow(S, res.args[1], res.args[2])
                name == ArgField(res.args[3])
            IN  IF R = << >> THEN res.exc = "RuntimeError"
                ELSE /\ res.exc = ""
                     /\ res.recs.count = Len(R)
                     /\ res.recs.sum = SumOf(R, name)
                     /\ \E k \in 1..Len(R) : res.recs.min = Num(R[k], name)
                     /\ \E k \in 1..Len(R) : res.recs.max = Num(R[k], name)

AllIdle == \A t \in Threads : inflight[t].pc = "idle"

WrongSizeRecords ==
    { PackQ(ts) : ts \in 0..(MaxTs + 1) }
        \cup { SubSeq(struct_pack(v), 1, _record_size - 1) : v \in Values }
        \cup { struct_pack(v) \o << 0 >> : v \in Values }

HandleMethods == { "append", "flush", "load", "query", "get_stats", "get_latest" }

\* C22: Closed is terminal: after close() every append, flush, load, query,
\* get_stats and get_latest on the handle raises RuntimeError without calling
\* the engine, the handle stays closed, and the stored series (the region and
\* what is durable of it) is unchanged.
C22_ClosedIsTerminal ==
    [][(~handle /\ result'.op \in HandleMethods)
       => /\ result'.exc = "RuntimeError"
          /\ result'.status = NoCall
          /\ ~result'.ret
          /\ ~handle'
          /\ UNCHANGED << file, disk, pending, count, last_timestamp, head, latest,
                          accepted >>]_vars

\* flush() on the closed handle of a series that holds two records
C22_Witness ==
    /\ ~handle
    /\ result.op = "flush" /\ result.exc = "RuntimeError"
    /\ Len(accepted) = 2 /\ Len(file) = 2 * record_width

\* C23: close() on a closed handle is a no-op: hocdb_close is called only by
\* a close() on an open handle (so at most once per handle), the second
\* close() raises nothing, and the stored series is unchanged by it.
C23_CloseIdempotent ==
    [][/\ (result'.op = "close" /\ result'.status = OK) => (handle /\ ~handle')
       /\ (~handle /\ result'.op = "close")
          => /\ result'.status = NoCall
             /\ result'.exc = ""
             /\ ~handle'
             /\ UNCHANGED << file, disk, pending, count, last_timestamp, head, latest,
                             accepted >>]_vars

\* a second close() of a handle whose series holds records
C23_Witness ==
    /\ ~handle
    /\ result.op = "close" /\ result.status = NoCall /\ result.exc = ""
    /\ Len(accepted) >= 1 /\ file # << >>

Visible(res) == [exc |-> res.exc, value |-> res.recs]

\* what the caller of query gets when no record matches
EmptyResult == [exc |-> "", value |-> << >>]

\* C25: a query that matches no record returns a valid empty result and
\* raises nothing, and a query the engine failed to serve (null result) gives
\* its caller something other than that empty result.
C25_FailureNotEmpty ==
    (result.op = "query" /\ result.status # NoCall)
    => /\ (/\ result.status = OK
            /\ Filtered(InWindow(Loaded, result.args[1], result.args[2]),
                        result.args[3]) = << >>)
          => Visible(result) = EmptyResult
       /\ result.status = NULL_RESULT => Visible(result) # EmptyResult

\* C26: append called with one bytes object holding an encoded record of
\* exactly the record width passes the bytes to the engine and returns True
\* when the engine accepts them; the record is then the last one of load().
C26_AppendEncodedRecord ==
    [][\A record \in EncodedRecords :
        (/\ handle /\ Len(record) = record_width
         /\ hocdb_append(record).status = OK
         /\ result'.op = "append" /\ result'.args = << record >>
         /\ append_bytes(record))
        => /\ result'.status = OK
           /\ result'.ret /\ result'.exc = ""
           /\ count' = count + 1
           /\ latest' = hocdb_append(record).latest
           /\ LET recs == _unpack_records(hocdb_load')
              IN  /\ Len(recs) > 0
                  /\ recs[Len(recs)] = RecordDict(struct_unpack(latest'))]_vars

C30_RecordsInsideCapacity ==
    (handle /\ RingMode)
    => /\ Cursor(count) % record_width = 0
       /\ Cursor(count) + record_width <= cfg.max_file_size
       /\ Len(file) <= cfg.max_file_size
       /\ sinceOpen > 0
            => \E k \in 0..(VisibleMax - 1) :
                   /\ (k + 1) * record_width <= Len(file)
                   /\ SubSeq(file, k * record_width + 1, (k + 1) * record_width) = latest


(***************************************************************************)
(* C31: load, query, get_stats and get_latest are read-only.               *)
(***************************************************************************)
ReadOps == { "load", "query", "get_stats", "get_latest" }

\* the records an append may hand to the engine, packed
PackedValues == { struct_pack(v) : v \in Values }

\* C31: a call of load, query, get_stats or get_latest, whether it returns
\* or raises, changes neither the stored records, the record count,
\* last_timestamp, the ring head nor the cached latest record; so the
\* status and the effect of whichever append comes next are the same after
\* the read as before it.
C31_ReadsAreReadOnly ==
    [][ result'.op \in ReadOps =>
          /\ file' = file
          /\ count' = count
          /\ last_timestamp' = last_timestamp
          /\ head' = head
          /\ latest' = latest
          /\ \A raw \in PackedValues : hocdb_append(raw)' = hocdb_append(raw) ]_vars

\* a read that returned on a ring that has wrapped, whose head is not 0
C31_Witness ==
    /\ result.op \in ReadOps
    /\ result.exc = ""
    /\ RingMode
    /\ count > VisibleMax
    /\ head # 0


(***************************************************************************)
(* C32: the kind a filter value is tagged with.                            *)
(***************************************************************************)
\* the filter dicts of the last query that reached the engine
PassedFilters ==
    IF result.op = "query" /\ result.status # NoCall THEN result.args[3] ELSE << >>

\* int, float and str values are tagged 1, 2 and 5, each with its value in
\* the slot of its kind
NumbersAndStringsTagged ==
    \A k \in 1..Len(PassedFilters) :
        LET f == PassedFilters[k]
            c == CFilter(f)
        IN  /\ f.pytype = "int" => c.type = 1 /\ c.val_i64 = f.value
            /\ f.pytype = "float" => c.type = 2 /\ c.val_f64 = f.value
            /\ f.pytype = "str" => c.type = 5 /\ c.val_string = Utf8(f.text)

\* a bool value is tagged 6 with the value in val_bool
BoolsTagged ==
    \A k \in 1..Len(PassedFilters) :
        LET f == PassedFilters[k]
            c == CFilter(f)
        IN  f.pytype = "bool" => c.type = 6 /\ c.val_bool = f.truth

\* C32: every filter of a query is handed to the engine tagged by the Python
\* type of its value, in the {field_name: value} syntax and in the legacy
\* syntax alike: a bool as kind 6 with the value in val_bool, an int as kind
\* 1, a float as kind 2 and a str as kind 5.
C32_FilterKinds == BoolsTagged /\ NumbersAndStringsTagged


(***************************************************************************)
(* C33: every buffer the engine returns is released exactly once.          *)
(***************************************************************************)
\* the last call was a load or a query that reached the engine
BufferCall == result.op \in { "load", "query" } /\ result.status # NoCall

\* C33: a load or a query that the engine answers with a non-null buffer
\* passes that buffer to hocdb_free exactly once, also when the buffer is
\* empty and also when copying or decoding it raises; when the engine
\* answers with a null result, and in every call that is handed no buffer,
\* hocdb_free is not called at all.
C33_FreedExactlyOnce ==
    /\ BufferCall /\ result.ptr # NULL => result.freed = << result.ptr >>
    /\ BufferCall /\ result.ptr = NULL => result.freed = << >>
    /\ ~BufferCall => result.ptr = NULL /\ result.freed = << >>

\* a load of a series that holds records, whose decoding raised
C33_Witness ==
    /\ result.op = "load"
    /\ result.exc = "Exception"
    /\ count > 0
    /\ result.ptr # NULL
    /\ result.freed = << result.ptr >>


=============================================================================
